---- MODULE Spec2Model ----
(***************************************************************************)
(* Queue and topic-selection capacity management of the LifeLine bot.      *)
(*                                                                         *)
(* Every handler invocation (one Telegram callback) is a process with its  *)
(* own database session (database.py get_db).  A process advances at the   *)
(* awaits of its handler: every statement sent to the store is one step.   *)
(* The store is a relational store at READ COMMITTED: a statement reads    *)
(* the committed rows, the writes of a session stay private to it until    *)
(* its commit, and an UPDATE or DELETE waits while a row it touches is     *)
(* written by another open session.  The relationship collections the      *)
(* handlers read (queue.entries, topic.selected_by, user.selected_topics)  *)
(* are loaded from the committed rows at the step that first reads them.   *)
(***************************************************************************)
EXTENDS Integers, FiniteSets, Sequences, TLC

\* ---------------------------------------------------------------- bounds
\* users, concurrent handler invocations, the largest position a join may
\* assign, and the last instant of the clock
NumUsers == 3
NumProcs == 2
MaxPos == 3
MaxTime == 2

Users == 1..NumUsers
Procs == 1..NumProcs
QueueIds == {"q1"}
TopicIds == {"t1"}
GroupIds == {"g1", "g2"}

\* the queues and the topics of the specifications that check what an
\* operation on one of them does to the other
FrameQueueIds == {"q1", "q2"}
FrameTopicIds == {"t1", "t2"}

\* every user of the model is a member of group g1
user_group(u) == "g1"

VARIABLES
    queues,     \* queues table: id -> [group_id, max_participants, is_active]
    entries,    \* queue_entries table, committed rows
    topics,     \* topics table: id -> [group_id, max_selections,
                \*     requires_approval, deadline, is_active]
    selections, \* user_topics table, committed rows
    user_topics_pk, \* the user_topics table has the primary key of the
                \*     migration (TRUE) or none, as models.py creates it
    now,        \* datetime.now()
    pc,         \* position of every handler invocation
    usr,        \* the user of the invocation
    tgt,        \* the queue (or topic) id of the callback data
    loc,        \* locals of the handler and of the CRUD call it makes
    tx,         \* uncommitted writes of the invocation's session
    res,        \* outcome answered to the user
    invite_tokens,  \* invite_tokens table: token -> [max_uses, uses_count]
    group_users,    \* users table: the users registered through a token
    notifications,  \* notifications table: id -> [enabled, scheduled_for,
                \*     is_sent]; enabled is the flag of the user's row
    delivered,  \* messages the bot has sent, counted by notification
    job         \* the run of the periodic job send_pending_notifications

vars ==
    <<queues, entries, topics, selections, user_topics_pk, now,
      pc, usr, tgt, loc, tx, res,
      invite_tokens, group_users, notifications, delivered, job>>

inviteStore == <<invite_tokens, group_users>>

notifyStore == <<notifications, delivered, job>>

\* the tables and the job that the queue and topic handlers never touch
auxStore == <<inviteStore, notifyStore>>

queueStore == <<queues, entries>>

\* the ids that the data of a callback can carry: the rows of the tables
\* and one id without a row
QueueRefs == DOMAIN queues \cup {"q0"}
TopicRefs == DOMAIN topics \cup {"t0"}

topicStore == <<topics, selections, user_topics_pk, now>>

\* Python truthiness: `queue.max_participants and ...` treats NULL and 0 alike
NULL == 0

NoEntry == <<>>

\* the group of a leader or assistant that the step does not look at
NoGroup == "g0"

NoLoc ==
    [len_entries |-> 0, max_position |-> 0, entry |-> NoEntry, position |-> 0,
     selected_count |-> 0, current_selections |-> 0, staff_group |-> NoGroup,
     uses_count |-> 0]

NoTx == [del |-> {}, shift |-> {}, rows |-> {}]

Quiet(p) == pc[p] \in {"idle", "done", "notified"}

\* ------------------------------------------------------------ store reads
QueueEntries(q) == {e \in entries : e.queue_id = q}

UserEntries(q, u) == {e \in entries : e.queue_id = q /\ e.user_id = u}

Positions(q) == {e.position : e \in QueueEntries(q)}

SetMax(S) == CHOOSE m \in S : \A x \in S : x <= m

\* select(func.max(QueueEntry.position)) ... result.scalar() or 0
MaxPosition(q) == IF Positions(q) = {} THEN 0 ELSE SetMax(Positions(q))

\* rows written by the open session of another invocation
LockedByOther(p) ==
    UNION {tx[r].del \cup tx[r].shift : r \in Procs \ {p}}

\* Primary keys are fresh uuid4 values.  A row is named by its queue, its
\* user and a serial number, the least one that no row and no invocation
\* still refers to.
UsedIds ==
    {e.id : e \in entries} \cup {loc[r].entry : r \in Procs}
        \cup UNION {tx[r].del \cup tx[r].shift : r \in Procs}

NewId(q, u) ==
    LET used == {i \in UsedIds : i # NoEntry /\ i[1] = q /\ i[2] = u}
        n == CHOOSE k \in 1..(Cardinality(used) + 1) : <<q, u, k>> \notin used
    IN  <<q, u, n>>

\* ------------------------------------------------------------------ join
\* position=max_position + 1
NextPosition(max_position) == max_position + 1

\* a handler that leaves the membership check to the CRUD call
UserInQueueUnchecked(q, u) == FALSE

\* handler check: any(entry.user_id == user.id for entry in queue.entries)
UserInQueue(q, u) == UserEntries(q, u) # {}

\* a capacity check that reads a missing limit as a limit of none
QueueIsFullWithoutLimit(q) ==
    Cardinality(QueueEntries(q)) >= queues[q].max_participants

\* handler check: queue.max_participants and len(queue.entries) >= max
QueueIsFull(q) ==
    /\ queues[q].max_participants # NULL
    /\ Cardinality(QueueEntries(q)) >= queues[q].max_participants

Finish(p, outcome, l) ==
    /\ pc' = [pc EXCEPT ![p] = "done"]
    /\ res' = [res EXCEPT ![p] = outcome]
    /\ loc' = [loc EXCEPT ![p] = l]

\* a handler that does not compare the group of the queue with the user's
JoinHandlerAnyGroup(p) ==
    /\ Quiet(p)
    /\ \E u \in Users, q \in QueueRefs :
        /\ usr' = [usr EXCEPT ![p] = u]
        /\ tgt' = [tgt EXCEPT ![p] = q]
        /\ IF q \notin DOMAIN queues
           THEN Finish(p, "QueueNotFound", NoLoc)
           ELSE IF UserInQueue(q, u)
           THEN Finish(p, "AlreadyJoined", NoLoc)
           ELSE IF QueueIsFull(q)
           THEN Finish(p, "QueueFull", NoLoc)
           ELSE /\ pc' = [pc EXCEPT ![p] = "join_existing"]
                /\ res' = [res EXCEPT ![p] = "none"]
                /\ loc' = [loc EXCEPT ![p] =
                       [NoLoc EXCEPT !.len_entries =
                           Cardinality(QueueEntries(q))]]
    /\ UNCHANGED <<auxStore, queueStore, topicStore, tx>>

\* a handler that looks at the capacity before the membership
JoinHandlerCapacityFirst(p) ==
    /\ Quiet(p)
    /\ \E u \in Users, q \in QueueRefs :
        /\ usr' = [usr EXCEPT ![p] = u]
        /\ tgt' = [tgt EXCEPT ![p] = q]
        /\ IF q \notin DOMAIN queues \/ queues[q].group_id # user_group(u)
           THEN Finish(p, "QueueNotFound", NoLoc)
           ELSE IF QueueIsFull(q)
           THEN Finish(p, "QueueFull", NoLoc)
           ELSE IF UserInQueue(q, u)
           THEN Finish(p, "AlreadyJoined", NoLoc)
           ELSE /\ pc' = [pc EXCEPT ![p] = "join_existing"]
                /\ res' = [res EXCEPT ![p] = "none"]
                /\ loc' = [loc EXCEPT ![p] =
                       [NoLoc EXCEPT !.len_entries =
                           Cardinality(QueueEntries(q))]]
    /\ UNCHANGED <<auxStore, queueStore, topicStore, tx>>

\* handlers/queues.py join_queue up to the call of queue_crud.join_queue
JoinHandler(p) ==
    /\ Quiet(p)
    /\ \E u \in Users, q \in QueueRefs :
        /\ usr' = [usr EXCEPT ![p] = u]
        /\ tgt' = [tgt EXCEPT ![p] = q]
        /\ IF q \notin DOMAIN queues \/ queues[q].group_id # user_group(u)
           THEN Finish(p, "QueueNotFound", NoLoc)
           ELSE IF UserInQueue(q, u)
           THEN Finish(p, "AlreadyJoined", NoLoc)
           ELSE IF QueueIsFull(q)
           THEN Finish(p, "QueueFull", NoLoc)
           ELSE /\ pc' = [pc EXCEPT ![p] = "join_existing"]
                /\ res' = [res EXCEPT ![p] = "none"]
                /\ loc' = [loc EXCEPT ![p] =
                       [NoLoc EXCEPT !.len_entries =
                           Cardinality(QueueEntries(q))]]
    /\ UNCHANGED <<auxStore, queueStore, topicStore, tx>>

\* crud.py join_queue: the select of the user's existing entry.  One row
\* returns None; several rows raise in scalar_one_or_none and the except
\* branch returns None as well.
JoinExisting(p) ==
    /\ pc[p] = "join_existing"
    /\ IF UserEntries(tgt[p], usr[p]) # {}
       THEN Finish(p, "JoinFailed", NoLoc)
       ELSE /\ pc' = [pc EXCEPT ![p] = "join_max"]
            /\ UNCHANGED <<res, loc>>
    /\ UNCHANGED <<auxStore, queueStore, topicStore, usr, tgt, tx>>

\* crud.py join_queue: the select of the maximum position
JoinMax(p) ==
    /\ pc[p] = "join_max"
    /\ pc' = [pc EXCEPT ![p] = "join_commit"]
    /\ loc' = [loc EXCEPT ![p].max_position = MaxPosition(tgt[p])]
    /\ UNCHANGED <<auxStore, queueStore, topicStore, usr, tgt, tx, res>>

\* crud.py join_queue: db.add(entry); commit; refresh, and the handler's
\* answer with entry.position and len(queue.entries) + 1
JoinCommit(p) ==
    /\ pc[p] = "join_commit"
    /\ NextPosition(loc[p].max_position) <= MaxPos
    /\ LET id == NewId(tgt[p], usr[p])
           position == NextPosition(loc[p].max_position)
       IN  /\ entries' = entries \cup
                  {[id |-> id, queue_id |-> tgt[p], user_id |-> usr[p],
                    position |-> position]}
           /\ Finish(p, "Joined",
                  [loc[p] EXCEPT !.entry = NoEntry, !.position = position])
    /\ UNCHANGED <<auxStore, queues, topicStore, usr, tgt, tx>>

\* the total the handler reports with the position: len(queue.entries) + 1,
\* from the entries it loaded before the CRUD call
TotalReported(p) == loc[p].len_entries + 1

\* ----------------------------------------------------------------- leave
\* handlers/queues.py leave_queue up to the call of queue_crud.leave_queue
LeaveHandler(p) ==
    /\ Quiet(p)
    /\ \E u \in Users, q \in QueueRefs :
        /\ usr' = [usr EXCEPT ![p] = u]
        /\ tgt' = [tgt EXCEPT ![p] = q]
        /\ IF q \notin DOMAIN queues \/ queues[q].group_id # user_group(u)
           THEN Finish(p, "QueueNotFound", NoLoc)
           ELSE /\ pc' = [pc EXCEPT ![p] = "leave_select"]
                /\ res' = [res EXCEPT ![p] = "none"]
                /\ loc' = [loc EXCEPT ![p] = NoLoc]
    /\ UNCHANGED <<auxStore, queueStore, topicStore, tx>>

\* a leave without the return on a missing entry: it goes on to the delete
\* and to the reorder with position 0
LeaveSelectUnchecked(p) ==
    /\ pc[p] = "leave_select"
    /\ LET rows == UserEntries(tgt[p], usr[p])
       IN  IF Cardinality(rows) <= 1
           THEN /\ pc' = [pc EXCEPT ![p] = "leave_delete"]
                /\ loc' = [loc EXCEPT
                       ![p].entry = IF rows = {} THEN NoEntry
                                    ELSE (CHOOSE e \in rows : TRUE).id,
                       ![p].position = IF rows = {} THEN 0
                                       ELSE (CHOOSE e \in rows : TRUE).position]
                /\ UNCHANGED res
           ELSE Finish(p, "NotInQueue", NoLoc)
    /\ UNCHANGED <<auxStore, queueStore, topicStore, usr, tgt, tx>>

\* crud.py leave_queue: the select of the user's entry.  No row returns
\* False; several rows raise in scalar_one_or_none and the except branch
\* returns False as well.
LeaveSelect(p) ==
    /\ pc[p] = "leave_select"
    /\ LET rows == UserEntries(tgt[p], usr[p])
       IN  IF Cardinality(rows) = 1
           THEN LET entry == CHOOSE e \in rows : TRUE
                IN  /\ pc' = [pc EXCEPT ![p] = "leave_delete"]
                    /\ loc' = [loc EXCEPT ![p].entry = entry.id,
                                          ![p].position = entry.position]
                    /\ UNCHANGED res
           ELSE Finish(p, "NotInQueue", NoLoc)
    /\ UNCHANGED <<auxStore, queueStore, topicStore, usr, tgt, tx>>

\* crud.py leave_queue: delete(QueueEntry).where(QueueEntry.id == entry.id)
LeaveDelete(p) ==
    /\ pc[p] = "leave_delete"
    /\ loc[p].entry \notin LockedByOther(p)
    /\ pc' = [pc EXCEPT ![p] = "leave_update"]
    /\ tx' = [tx EXCEPT ![p].del =
                 {e.id : e \in {r \in entries : r.id = loc[p].entry}}]
    /\ UNCHANGED <<auxStore, queueStore, topicStore, usr, tgt, loc, res>>

\* the reorder with the comparison turned round
ShiftTargetsBelow(q, position, rows) ==
    {e.id : e \in {r \in rows : r.queue_id = q /\ r.position < position}}

\* the reorder that skips the entry right behind the one that left
ShiftTargetsFrom(q, position, rows) ==
    {e.id : e \in {r \in rows : r.queue_id = q /\ r.position > position + 1}}

\* a reorder that moves every entry of the queue
ShiftTargetsAll(q, position, rows) ==
    {e.id : e \in {r \in rows : r.queue_id = q}}

\* the reorder without the filter on the queue
ShiftTargetsAnyQueue(q, position, rows) ==
    {e.id : e \in {f \in rows : f.position > position}}

\* rows of the reorder:  queue_id == queue_id and position > position
ShiftTargets(q, position, rows) ==
    {e.id : e \in {r \in rows : r.queue_id = q /\ r.position > position}}

\* crud.py leave_queue: update(QueueEntry) ... values(position=position - 1)
LeaveUpdate(p) ==
    /\ pc[p] = "leave_update"
    /\ LET visible == {e \in entries : e.id \notin tx[p].del}
           ids == ShiftTargets(tgt[p], loc[p].position, visible)
       IN  /\ ids \cap LockedByOther(p) = {}
           /\ tx' = [tx EXCEPT ![p].shift = ids]
    /\ pc' = [pc EXCEPT ![p] = "leave_commit"]
    /\ UNCHANGED <<auxStore, queueStore, topicStore, usr, tgt, loc, res>>

\* a reorder that lowers the positions by two
AppliedTwice(rows, t) ==
    {IF e.id \in t.shift THEN [e EXCEPT !.position = e.position - 2] ELSE e :
        e \in {r \in rows : r.id \notin t.del}}

\* the committed table once the session's delete and update are applied
Applied(rows, t) ==
    {IF e.id \in t.shift THEN [e EXCEPT !.position = e.position - 1] ELSE e :
        e \in {r \in rows : r.id \notin t.del}}

\* crud.py leave_queue: commit, and the handler's answer
LeaveCommit(p) ==
    /\ pc[p] = "leave_commit"
    /\ entries' = Applied(entries, tx[p])
    /\ tx' = [tx EXCEPT ![p] = NoTx]
    /\ Finish(p, "Left", [loc[p] EXCEPT !.entry = NoEntry])
    /\ UNCHANGED <<auxStore, queues, topicStore, usr, tgt>>

\* ---------------------------------------------------------------- topics
TopicSelections(t) == {s \in selections : s.topic_id = t}

UserSelections(t, u) == {s \in selections : s.topic_id = t /\ s.user_id = u}

\* len(topic.selected_by): the users the relationship loads, each once
SelectedBy(t) == {s.user_id : s \in TopicSelections(t)}

\* select(func.count()).select_from(user_topics): the rows of the topic
CountSelections(t) == Cardinality(TopicSelections(t))

\* the comparison with the deadline turned round
DeadlineAhead(t) == topics[t].deadline # NULL /\ topics[t].deadline > now

\* topic.deadline and topic.deadline < datetime.now()
DeadlinePassed(t) == topics[t].deadline # NULL /\ topics[t].deadline < now

\* selected_count >= topic.max_selections
NoFreeSlot(count, t) == count >= topics[t].max_selections

\* a row that takes the flag of the topic as it is
InitialApprovedSame(t) == topics[t].requires_approval

\* approved=not topic.requires_approval
InitialApproved(t) == ~topics[t].requires_approval

\* a row of user_topics; n tells apart the rows of one (topic, user) pair
\* that a table without primary key can hold
NewSelection(t, u) ==
    LET used == {s.n : s \in UserSelections(t, u)}
    IN  [user_id |-> u, topic_id |-> t, approved |-> InitialApproved(t),
         n |-> CHOOSE k \in 1..(Cardinality(used) + 1) : k \notin used]

\* a row of user_topics as a statement of another session addresses it
SelKey(s) == <<s.topic_id, s.user_id, s.n>>

\* rows of user_topics written by the open session of another invocation
SelLockedByOther(p) == UNION {tx[r].rows : r \in Procs \ {p}}

\* the rows a statement with where(user_id == u, topic_id == t) addresses
Matching(t, u) == {SelKey(s) : s \in UserSelections(t, u)}

\* handlers/topics.py choose_topic up to the read of the user's topics
ChooseTopicHandler(p) ==
    /\ Quiet(p)
    /\ \E u \in Users, t \in TopicRefs :
        /\ usr' = [usr EXCEPT ![p] = u]
        /\ tgt' = [tgt EXCEPT ![p] = t]
        /\ IF t \notin DOMAIN topics \/ topics[t].group_id # user_group(u)
           THEN Finish(p, "TopicNotFound", NoLoc)
           ELSE IF DeadlinePassed(t)
           THEN Finish(p, "DeadlinePassed", NoLoc)
           ELSE IF NoFreeSlot(Cardinality(SelectedBy(t)), t)
           THEN Finish(p, "CapacityFull", NoLoc)
           ELSE /\ pc' = [pc EXCEPT ![p] = "select_user"]
                /\ res' = [res EXCEPT ![p] = "none"]
                /\ loc' = [loc EXCEPT ![p] =
                       [NoLoc EXCEPT !.selected_count =
                           Cardinality(SelectedBy(t))]]
    /\ UNCHANGED <<auxStore, queueStore, topicStore, tx>>

\* handlers/topics.py choose_topic: topic.id in user.selected_topics
SelectUser(p) ==
    /\ pc[p] = "select_user"
    /\ IF UserSelections(tgt[p], usr[p]) # {}
       THEN Finish(p, "AlreadySelected", NoLoc)
       ELSE /\ pc' = [pc EXCEPT ![p] = "select_count"]
            /\ UNCHANGED <<res, loc>>
    /\ UNCHANGED <<auxStore, queueStore, topicStore, usr, tgt, tx>>

\* crud.py select_topic: the read of the topic and the count of its rows
SelectCount(p) ==
    /\ pc[p] = "select_count"
    /\ IF NoFreeSlot(CountSelections(tgt[p]), tgt[p])
       THEN Finish(p, "SelectFailed", NoLoc)
       ELSE /\ pc' = [pc EXCEPT ![p] = "select_insert"]
            /\ loc' = [loc EXCEPT ![p].current_selections =
                          CountSelections(tgt[p])]
            /\ UNCHANGED res
    /\ UNCHANGED <<auxStore, queueStore, topicStore, usr, tgt, tx>>

\* crud.py select_topic: the insert and its commit, and the handler's
\* answer.  With the primary key the insert waits for an open session that
\* writes a row of the pair, a second row of the pair is refused, and the
\* except branch then rolls back and returns False.
SelectInsert(p) ==
    /\ pc[p] = "select_insert"
    /\ user_topics_pk => Matching(tgt[p], usr[p]) \cap SelLockedByOther(p) = {}
    /\ IF user_topics_pk /\ UserSelections(tgt[p], usr[p]) # {}
       THEN /\ Finish(p, "SelectFailed", NoLoc)
            /\ UNCHANGED selections
       ELSE /\ selections' = selections \cup {NewSelection(tgt[p], usr[p])}
            /\ Finish(p, IF topics[tgt[p]].requires_approval
                         THEN "Pending" ELSE "Selected", loc[p])
    /\ UNCHANGED <<auxStore, queueStore, topics, user_topics_pk, now,
                   usr, tgt, tx>>

\* handlers/topics.py approve_selection, crud.py approve_selection:
\* update(user_topics).where(user_id, topic_id).values(approved=True)
\* g is the group of the leader or assistant who presses the button; no
\* statement of the handler or of the CRUD call reads it
ApproveSelectionBy(p, g) ==
    /\ Quiet(p)
    /\ \E u \in Users, t \in DOMAIN topics :
        /\ Matching(t, u) \cap SelLockedByOther(p) = {}
        /\ usr' = [usr EXCEPT ![p] = u]
        /\ tgt' = [tgt EXCEPT ![p] = t]
        /\ tx' = [tx EXCEPT ![p].rows = Matching(t, u)]
    /\ pc' = [pc EXCEPT ![p] = "approve_commit"]
    /\ res' = [res EXCEPT ![p] = "none"]
    /\ loc' = [loc EXCEPT ![p] = [NoLoc EXCEPT !.staff_group = g]]
    /\ UNCHANGED <<auxStore, queueStore, topicStore>>

ApproveSelection(p) == ApproveSelectionBy(p, NoGroup)

\* an update that turns the flag of the rows round instead of setting it
ApprovedFlipped(rows, keys) ==
    {IF SelKey(s) \in keys THEN [s EXCEPT !.approved = ~s.approved] ELSE s :
        s \in rows}

\* the table once the update of the rows keys is committed
Approved(rows, keys) ==
    {IF SelKey(s) \in keys THEN [s EXCEPT !.approved = TRUE] ELSE s :
        s \in rows}

\* crud.py approve_selection: commit and return True, whatever the number
\* of rows updated; the handler answers that the selection is approved
ApproveCommit(p) ==
    /\ pc[p] = "approve_commit"
    /\ selections' = Approved(selections, tx[p].rows)
    /\ tx' = [tx EXCEPT ![p] = NoTx]
    /\ Finish(p, "Approved", NoLoc)
    /\ UNCHANGED <<auxStore, queueStore, topics, user_topics_pk, now, usr, tgt>>

\* handlers/topics.py reject_selection:
\* delete(user_topics).where(user_id, topic_id)
\* g is the group of the leader or assistant who presses the button; the
\* handler does not read it
RejectSelectionBy(p, g) ==
    /\ Quiet(p)
    /\ \E u \in Users, t \in DOMAIN topics :
        /\ Matching(t, u) \cap SelLockedByOther(p) = {}
        /\ usr' = [usr EXCEPT ![p] = u]
        /\ tgt' = [tgt EXCEPT ![p] = t]
        /\ tx' = [tx EXCEPT ![p].rows = Matching(t, u)]
    /\ pc' = [pc EXCEPT ![p] = "reject_commit"]
    /\ res' = [res EXCEPT ![p] = "none"]
    /\ loc' = [loc EXCEPT ![p] = [NoLoc EXCEPT !.staff_group = g]]
    /\ UNCHANGED <<auxStore, queueStore, topicStore>>

RejectSelection(p) == RejectSelectionBy(p, NoGroup)

\* a reject that only withdraws the approval and keeps the rows
RejectedKept(rows, keys) ==
    {IF SelKey(s) \in keys THEN [s EXCEPT !.approved = FALSE] ELSE s :
        s \in rows}

\* the table once the delete of the rows keys is committed
Rejected(rows, keys) == {s \in rows : SelKey(s) \notin keys}

\* handlers/topics.py reject_selection: commit, and the answer that the
\* selection is rejected, which does not depend on the rows deleted
RejectCommit(p) ==
    /\ pc[p] = "reject_commit"
    /\ selections' = Rejected(selections, tx[p].rows)
    /\ tx' = [tx EXCEPT ![p] = NoTx]
    /\ Finish(p, "Rejected", NoLoc)
    /\ UNCHANGED <<auxStore, queueStore, topics, user_topics_pk, now, usr, tgt>>

\* time passes
Tick ==
    /\ now < MaxTime
    /\ now' = now + 1
    /\ UNCHANGED <<auxStore, queueStore, topics, selections, user_topics_pk,
                   pc, usr, tgt, loc, tx, res>>

\* --------------------------------------------------------- store failures
\* A statement sent to the store may raise (connection lost, timeout).
\* Inside a CRUD method the except branch rolls the session back and
\* returns None or False; the handler maps that value to its answer.
\* the positions of an invocation inside QueueCRUD.join_queue and inside
\* QueueCRUD.leave_queue
JoinPcs == {"join_existing", "join_max", "join_commit"}

LeavePcs == {"leave_select", "leave_delete", "leave_update", "leave_commit"}

\* the session of p is rolled back: its uncommitted writes are dropped
Rollback(p) == tx' = [tx EXCEPT ![p] = NoTx]

\* crud.py join_queue: a statement raises; except: rollback, return None;
\* the handler answers that the join did not work
JoinFails(p) ==
    /\ pc[p] \in JoinPcs
    /\ Rollback(p)
    /\ Finish(p, "JoinFailed", NoLoc)
    /\ UNCHANGED <<auxStore, queueStore, topicStore, usr, tgt>>

\* a failure that leaves the delete in the store and drops the reorder
LeaveFailsHalfway(p) ==
    /\ pc[p] \in LeavePcs
    /\ entries' = {e \in entries : e.id \notin tx[p].del}
    /\ Rollback(p)
    /\ Finish(p, "NotInQueue", NoLoc)
    /\ UNCHANGED <<auxStore, queues, topicStore, usr, tgt>>

\* crud.py leave_queue: a statement raises; except: rollback, return False;
\* the handler answers that the user is not in the queue
LeaveFails(p) ==
    /\ pc[p] \in LeavePcs
    /\ Rollback(p)
    /\ Finish(p, "NotInQueue", NoLoc)
    /\ UNCHANGED <<auxStore, queueStore, topicStore, usr, tgt>>

\* handlers/topics.py choose_topic: the read of the user's topics raises
\* in the handler, whose except branch answers that an error occurred;
\* crud.py select_topic: a statement raises; except: rollback, return
\* False; the handler answers that the select did not work
SelectFails(p) ==
    /\ pc[p] \in {"select_user", "select_count", "select_insert"}
    /\ Rollback(p)
    /\ Finish(p, IF pc[p] = "select_user" THEN "Error" ELSE "SelectFailed",
              NoLoc)
    /\ UNCHANGED <<auxStore, queueStore, topicStore, usr, tgt>>

\* crud.py approve_selection: the commit raises; except: rollback, return
\* False; the handler answers that the approval failed
ApproveFails(p) ==
    /\ pc[p] = "approve_commit"
    /\ Rollback(p)
    /\ Finish(p, "ApproveFailed", NoLoc)
    /\ UNCHANGED <<auxStore, queueStore, topicStore, usr, tgt>>

\* handlers/topics.py reject_selection: the commit raises in the handler,
\* whose except branch answers that an error occurred; get_db rolls the
\* session back
RejectFails(p) ==
    /\ pc[p] = "reject_commit"
    /\ Rollback(p)
    /\ Finish(p, "Error", NoLoc)
    /\ UNCHANGED <<auxStore, queueStore, topicStore, usr, tgt>>

\* ------------------------------------------------------- specifications
QueueConfigs ==
    [group_id : GroupIds, max_participants : {NULL, 1, 2}, is_active : BOOLEAN]

TopicConfigs ==
    [group_id : GroupIds, max_selections : {1, 2},
     requires_approval : BOOLEAN, deadline : {NULL, 1}, is_active : BOOLEAN]

DefaultQueue ==
    [group_id |-> "g1", max_participants |-> NULL, is_active |-> TRUE]

DefaultTopic ==
    [group_id |-> "g1", max_selections |-> 1, requires_approval |-> TRUE,
     deadline |-> NULL, is_active |-> TRUE]

\* no invite token, no notification, the periodic job between two runs
NoJob == [pc |-> "idle", batch |-> {}, cur |-> 0]

InitAux ==
    /\ invite_tokens = <<>>
    /\ group_users = {}
    /\ notifications = <<>>
    /\ delivered = <<>>
    /\ job = NoJob

InitHandlers ==
    /\ entries = {}
    /\ selections = {}
    /\ now = 1
    /\ pc = [p \in Procs |-> "idle"]
    /\ usr = [p \in Procs |-> 1]
    /\ loc = [p \in Procs |-> NoLoc]
    /\ tx = [p \in Procs |-> NoTx]
    /\ res = [p \in Procs |-> "none"]

InitProcs == InitHandlers /\ InitAux

InitQueue ==
    /\ queues \in [QueueIds -> QueueConfigs]
    /\ topics = [t \in TopicIds |-> DefaultTopic]
    /\ user_topics_pk = FALSE
    /\ tgt = [p \in Procs |-> "q1"]
    /\ InitProcs

InitTopic ==
    /\ queues = [q \in QueueIds |-> DefaultQueue]
    /\ topics \in [TopicIds -> TopicConfigs]
    /\ user_topics_pk \in BOOLEAN
    /\ tgt = [p \in Procs |-> "t1"]
    /\ InitProcs

\* the start of the specifications of overlapping invocations: the queue
\* (the topic) is active, as no statement of a handler reads the flag
InitQueueActive == InitQueue /\ \A q \in QueueIds : queues[q].is_active

InitTopicActive == InitTopic /\ \A t \in TopicIds : topics[t].is_active

\* the invocation that runs alone in the sequential specifications
SeqProcs == {p \in Procs : \A r \in Procs : p <= r}

\* concurrent handler invocations on the queues
NextQueue ==
    \E p \in Procs :
        \/ JoinHandler(p)
        \/ JoinExisting(p)
        \/ JoinMax(p)
        \/ JoinCommit(p)
        \/ LeaveHandler(p)
        \/ LeaveSelect(p)
        \/ LeaveDelete(p)
        \/ LeaveUpdate(p)
        \/ LeaveCommit(p)

SpecQueue == InitQueueActive /\ [][NextQueue]_vars

\* queue handlers run to completion one after another: one invocation at
\* a time, each started when the one before has answered
NextQueueSeq ==
    \E p \in SeqProcs :
        \/ JoinHandler(p)
        \/ JoinExisting(p)
        \/ JoinMax(p)
        \/ JoinCommit(p)
        \/ LeaveHandler(p)
        \/ LeaveSelect(p)
        \/ LeaveDelete(p)
        \/ LeaveUpdate(p)
        \/ LeaveCommit(p)

SpecQueueSeq == InitQueue /\ [][NextQueueSeq]_vars

\* concurrent handler invocations on the queues in which no two joins
\* overlap: a join starts when no other join is in progress, so that every
\* overlap of two invocations has a leave in it
LoneJoinHandler(p) ==
    (\A r \in Procs : pc[r] \notin JoinPcs) /\ JoinHandler(p)

NextLeaveRace ==
    \E p \in Procs :
        \/ LoneJoinHandler(p)
        \/ JoinExisting(p)
        \/ JoinMax(p)
        \/ JoinCommit(p)
        \/ LeaveHandler(p)
        \/ LeaveSelect(p)
        \/ LeaveDelete(p)
        \/ LeaveUpdate(p)
        \/ LeaveCommit(p)

SpecLeaveRace == InitQueueActive /\ [][NextLeaveRace]_vars

\* concurrent handler invocations on the topics
NextTopic ==
    \/ \E p \in Procs :
        \/ ChooseTopicHandler(p)
        \/ SelectUser(p)
        \/ SelectCount(p)
        \/ SelectInsert(p)
        \/ ApproveSelection(p)
        \/ ApproveCommit(p)
        \/ RejectSelection(p)
        \/ RejectCommit(p)
    \/ Tick

SpecTopic == InitTopicActive /\ [][NextTopic]_vars

\* topic handlers run to completion one after another
NextTopicSeq ==
    \/ \E p \in SeqProcs :
        \/ ChooseTopicHandler(p)
        \/ SelectUser(p)
        \/ SelectCount(p)
        \/ SelectInsert(p)
        \/ ApproveSelection(p)
        \/ ApproveCommit(p)
        \/ RejectSelection(p)
        \/ RejectCommit(p)
    \/ Tick

SpecTopicSeq == InitTopic /\ [][NextTopicSeq]_vars

\* queue handlers run one after another on a store whose statements may
\* fail
NextQueueFault ==
    \/ NextQueueSeq
    \/ \E p \in SeqProcs :
        \/ JoinFails(p)
        \/ LeaveFails(p)

SpecQueueFault == InitQueue /\ [][NextQueueFault]_vars

\* topic handlers run one after another on a store whose statements may
\* fail
NextTopicFault ==
    \/ NextTopicSeq
    \/ \E p \in SeqProcs :
        \/ SelectFails(p)
        \/ ApproveFails(p)
        \/ RejectFails(p)

SpecTopicFault == InitTopic /\ [][NextTopicFault]_vars

\* Two invocations, each on a queue and a topic of its own, overlap in
\* every way.  The store holds two queues and no topic yet, or two topics
\* and no queue.
FrameProcs == {p \in Procs : p <= 2}

\* the queue and the topic that the callbacks of invocation p name
Home(p) == IF p \in SeqProcs THEN {"q1", "t1"} ELSE {"q2", "t2"}

FrameQueue ==
    [group_id |-> "g1", max_participants |-> 2, is_active |-> TRUE]

FrameTopic ==
    [group_id |-> "g1", max_selections |-> 2, requires_approval |-> TRUE,
     deadline |-> NULL, is_active |-> TRUE]

InitFrame ==
    /\ \/ /\ queues = [q \in FrameQueueIds |-> FrameQueue]
          /\ topics = <<>>
       \/ /\ queues = <<>>
          /\ topics = [t \in FrameTopicIds |-> FrameTopic]
    /\ user_topics_pk = TRUE
    /\ tgt = [p \in Procs |-> "q0"]
    /\ InitProcs

NextFrame ==
    \E p \in FrameProcs :
        \/ JoinHandler(p) /\ tgt'[p] \in Home(p)
        \/ JoinExisting(p)
        \/ JoinMax(p)
        \/ JoinCommit(p)
        \/ LeaveHandler(p) /\ tgt'[p] \in Home(p)
        \/ LeaveSelect(p)
        \/ LeaveDelete(p)
        \/ LeaveUpdate(p)
        \/ LeaveCommit(p)
        \/ ChooseTopicHandler(p) /\ tgt'[p] \in Home(p)
        \/ SelectUser(p)
        \/ SelectCount(p)
        \/ SelectInsert(p)
        \/ ApproveSelection(p) /\ tgt'[p] \in Home(p)
        \/ ApproveCommit(p)
        \/ RejectSelection(p) /\ tgt'[p] \in Home(p)
        \/ RejectCommit(p)

SpecFrame == InitFrame /\ [][NextFrame]_vars

\* a leave that directly follows the successful join of the same user on the
\* same queue, in the same series of invocations
LeaveAfterJoin(p) ==
    /\ pc[p] = "done" /\ res[p] = "Joined"
    /\ LeaveHandler(p)
    /\ usr'[p] = usr[p] /\ tgt'[p] = tgt[p]

\* joins run one after another, and every leave is the leave of the user who
\* has just joined
NextRoundTrip ==
    \E p \in SeqProcs :
        \/ JoinHandler(p)
        \/ JoinExisting(p)
        \/ JoinMax(p)
        \/ JoinCommit(p)
        \/ LeaveAfterJoin(p)
        \/ LeaveSelect(p)
        \/ LeaveDelete(p)
        \/ LeaveUpdate(p)
        \/ LeaveCommit(p)

SpecRoundTrip == InitQueue /\ [][NextRoundTrip]_vars

\* the operations of a member, one invocation after another, on a store
\* that holds one queue and no topic yet, or one topic and no queue, of the
\* user's group or of another
InitMember ==
    /\ \/ /\ queues \in [QueueIds -> QueueConfigs]
          /\ topics = <<>>
       \/ /\ queues = <<>>
          /\ topics \in [TopicIds -> TopicConfigs]
    /\ user_topics_pk = TRUE
    /\ tgt = [p \in Procs |-> "q0"]
    /\ InitProcs

NextMember ==
    \E p \in SeqProcs :
        \/ JoinHandler(p)
        \/ JoinExisting(p)
        \/ JoinMax(p)
        \/ JoinCommit(p)
        \/ LeaveHandler(p)
        \/ LeaveSelect(p)
        \/ LeaveDelete(p)
        \/ LeaveUpdate(p)
        \/ LeaveCommit(p)
        \/ ChooseTopicHandler(p)
        \/ SelectUser(p)
        \/ SelectCount(p)
        \/ SelectInsert(p)

SpecMember == InitMember /\ [][NextMember]_vars

\* topic handlers run one after another; the approve and the reject come
\* from a leader or assistant of any group
NextStaff ==
    \E p \in SeqProcs :
        \/ ChooseTopicHandler(p)
        \/ SelectUser(p)
        \/ SelectCount(p)
        \/ SelectInsert(p)
        \/ \E g \in GroupIds : ApproveSelectionBy(p, g)
        \/ ApproveCommit(p)
        \/ \E g \in GroupIds : RejectSelectionBy(p, g)
        \/ RejectCommit(p)

SpecStaff == InitTopic /\ [][NextStaff]_vars

\* ------------------------------------------------------------- invitation
TokenIds == {"k1"}

\* the users whose row was created through token k
RegisteredWith(k) == {m \in group_users : m[2] = k}

\* auth_service.py is_token_valid, crud.py use_token: the limit on the uses;
\* the token is active and has not expired
UsesExhausted(k, uses_count) ==
    /\ invite_tokens[k].max_uses # NULL
    /\ uses_count >= invite_tokens[k].max_uses

\* handlers/auth.py process_name_with_invite: get_by_token loads the token
\* into the session, is_token_valid checks it
RegisterHandler(p) ==
    /\ Quiet(p)
    /\ \E u \in Users, k \in DOMAIN invite_tokens :
        /\ u \notin {m[1] : m \in group_users}
        /\ usr' = [usr EXCEPT ![p] = u]
        /\ tgt' = [tgt EXCEPT ![p] = k]
        /\ IF UsesExhausted(k, invite_tokens[k].uses_count)
           THEN Finish(p, "InviteInvalid", NoLoc)
           ELSE /\ pc' = [pc EXCEPT ![p] = "reg_create"]
                /\ res' = [res EXCEPT ![p] = "none"]
                /\ loc' = [loc EXCEPT ![p] =
                       [NoLoc EXCEPT !.uses_count =
                           invite_tokens[k].uses_count]]
    /\ UNCHANGED <<queueStore, topicStore, tx, inviteStore, notifyStore>>

\* crud.py create_user: add, commit.  users.telegram_id is unique: a second
\* row for the same Telegram user raises, and the handler answers an error
RegisterCreate(p) ==
    /\ pc[p] = "reg_create"
    /\ IF usr[p] \in {m[1] : m \in group_users}
       THEN /\ Finish(p, "Error", NoLoc)
            /\ UNCHANGED group_users
       ELSE /\ group_users' = group_users \cup {<<usr[p], tgt[p]>>}
            /\ pc' = [pc EXCEPT ![p] = "reg_use"]
            /\ UNCHANGED <<res, loc>>
    /\ UNCHANGED <<queueStore, topicStore, usr, tgt, tx, invite_tokens,
                   notifyStore>>

\* crud.py use_token: get_by_token returns the object the session already
\* holds, with the uses_count it loaded (expire_on_commit=False); the check
\* is made on it, uses_count += 1 is written back as that value plus one,
\* and the handler goes on whatever use_token returns
RegisterUse(p) ==
    /\ pc[p] = "reg_use"
    /\ IF UsesExhausted(tgt[p], loc[p].uses_count)
       THEN UNCHANGED invite_tokens
       ELSE invite_tokens' =
                [invite_tokens EXCEPT ![tgt[p]].uses_count =
                    loc[p].uses_count + 1]
    /\ Finish(p, "Registered", NoLoc)
    /\ UNCHANGED <<queueStore, topicStore, usr, tgt, tx, group_users,
                   notifyStore>>

InviteConfigs == [max_uses : {NULL, 1, 2}, uses_count : {0}]

InitInvite ==
    /\ queues = [q \in QueueIds |-> DefaultQueue]
    /\ topics = [t \in TopicIds |-> DefaultTopic]
    /\ user_topics_pk = TRUE
    /\ tgt = [p \in Procs |-> "k1"]
    /\ InitHandlers
    /\ invite_tokens \in [TokenIds -> InviteConfigs]
    /\ group_users = {}
    /\ notifications = <<>>
    /\ delivered = <<>>
    /\ job = NoJob

\* invite registrations of several users overlap
NextInvite ==
    \E p \in Procs :
        \/ RegisterHandler(p)
        \/ RegisterCreate(p)
        \/ RegisterUse(p)

SpecInvite == InitInvite /\ [][NextInvite]_vars

\* ---------------------------------------------------------- notifications
\* NotificationService(): the handlers build the service without a bot
NoBot == "none"

\* a send that lets the failure out to its caller
SendRaising(bot, fails) ==
    IF bot = NoBot \/ fails THEN "raised" ELSE "sent"

\* notification_service.py send_immediate_notification: False without a
\* bot, False when bot.send_message raises, True otherwise; it never raises
send_immediate_notification(bot, fails) ==
    IF bot = NoBot THEN "failed"
    ELSE IF fails THEN "failed" ELSE "sent"

\* what the handler has answered once the send has returned: an exception
\* reaches the handler's except, which answers with the error
AfterSend(p, sent) ==
    /\ pc' = [pc EXCEPT ![p] = "notified"]
    /\ res' = [res EXCEPT ![p] = IF sent = "raised" THEN "Error" ELSE @]
    /\ UNCHANGED <<auxStore, queueStore, topicStore, usr, tgt, loc, tx>>

\* topics.py approve_selection, reject_selection: after the answer, the
\* notification to the user whose selection was decided
NotifyUser(p) ==
    /\ pc[p] = "done"
    /\ res[p] \in {"Approved", "Rejected"}
    /\ \E fails \in BOOLEAN :
           AfterSend(p, send_immediate_notification(NoBot, fails))

\* topics.py choose_topic, notify_leader_about_selection: after the answer
\* that the selection waits for approval; the lookup of the leader and the
\* send are inside a try whose except only logs
NotifyLeader(p) ==
    /\ pc[p] = "done"
    /\ res[p] = "Pending"
    /\ \E found \in BOOLEAN, fails \in BOOLEAN :
           AfterSend(p, IF found
                        THEN send_immediate_notification(NoBot, fails)
                        ELSE "failed")

NextTopicNotify ==
    \/ NextTopicSeq
    \/ \E p \in SeqProcs :
           \/ NotifyUser(p)
           \/ NotifyLeader(p)

SpecTopicNotify == InitTopic /\ [][NextTopicNotify]_vars

\* --------------------------------------------------- pending notifications
MaxNotes == 2
MaxDeliver == 2

NotifIds == 1..MaxNotes

\* a read of the pending rows that leaves out the rows without a time
PendingScheduledOnly ==
    {n \in DOMAIN notifications :
        /\ ~notifications[n].is_sent
        /\ notifications[n].scheduled_for # NULL
        /\ notifications[n].scheduled_for <= now}

\* crud.py get_pending_notifications: is_sent == False and
\* (scheduled_for <= now or scheduled_for is None)
get_pending_notifications ==
    {n \in DOMAIN notifications :
        /\ ~notifications[n].is_sent
        /\ \/ notifications[n].scheduled_for = NULL
           \/ notifications[n].scheduled_for <= now}

\* scheduler.py _send_pending_notifications, notification_service.py
\* send_pending_notifications: a run starts (max_instances=1: when no run
\* is under way) and reads the pending notifications
JobStart ==
    /\ job.pc = "idle"
    /\ job' = [pc |-> "loop", batch |-> get_pending_notifications, cur |-> 0]
    /\ UNCHANGED <<queueStore, topicStore, pc, usr, tgt, loc, tx, res,
                   inviteStore, notifications, delivered>>

\* for notification in notifications: a user with notifications disabled
\* goes straight to mark_as_sent
JobNext ==
    /\ job.pc = "loop"
    /\ \E n \in job.batch :
           job' = [pc |-> IF notifications[n].enabled THEN "send" ELSE "mark",
                   batch |-> job.batch \ {n}, cur |-> n]
    /\ UNCHANGED <<queueStore, topicStore, pc, usr, tgt, loc, tx, res,
                   inviteStore, notifications, delivered>>

\* send_immediate_notification returns True: the message is delivered
JobSendOk(n) ==
    /\ job.pc = "send" /\ job.cur = n
    /\ delivered[n] < MaxDeliver
    /\ delivered' = [delivered EXCEPT ![n] = @ + 1]
    /\ job' = [job EXCEPT !.pc = "mark"]
    /\ UNCHANGED <<queueStore, topicStore, pc, usr, tgt, loc, tx, res,
                   inviteStore, notifications>>

\* send_immediate_notification returns False: nothing is delivered and the
\* notification is left as it is
JobSendFails(n) ==
    /\ job.pc = "send" /\ job.cur = n
    /\ job' = [job EXCEPT !.pc = "loop"]
    /\ UNCHANGED <<queueStore, topicStore, pc, usr, tgt, loc, tx, res,
                   inviteStore, notifications, delivered>>

\* crud.py mark_as_sent: update ... values(is_sent=True), commit
JobMark(n) ==
    /\ job.pc = "mark" /\ job.cur = n
    /\ notifications' = [notifications EXCEPT ![n].is_sent = TRUE]
    /\ job' = [job EXCEPT !.pc = "loop"]
    /\ UNCHANGED <<queueStore, topicStore, pc, usr, tgt, loc, tx, res,
                   inviteStore, delivered>>

\* mark_as_sent raises: the except of the loop logs and goes on to the
\* next notification
JobMarkFails(n) ==
    /\ job.pc = "mark" /\ job.cur = n
    /\ job' = [job EXCEPT !.pc = "loop"]
    /\ UNCHANGED <<queueStore, topicStore, pc, usr, tgt, loc, tx, res,
                   inviteStore, notifications, delivered>>

\* the loop is through: the run ends
JobEnd ==
    /\ job.pc = "loop" /\ job.batch = {}
    /\ job' = NoJob
    /\ UNCHANGED <<queueStore, topicStore, pc, usr, tgt, loc, tx, res,
                   inviteStore, notifications, delivered>>

NotifyConfigs ==
    [enabled : BOOLEAN, scheduled_for : {NULL, MaxTime}, is_sent : {FALSE}]

InitNotify ==
    /\ queues = [q \in QueueIds |-> DefaultQueue]
    /\ topics = [t \in TopicIds |-> DefaultTopic]
    /\ user_topics_pk = TRUE
    /\ tgt = [p \in Procs |-> "q0"]
    /\ InitHandlers
    /\ invite_tokens = <<>>
    /\ group_users = {}
    /\ notifications \in [NotifIds -> NotifyConfigs]
    /\ delivered = [n \in NotifIds |-> 0]
    /\ job = NoJob

\* the runs of the periodic job on a store that works
NextNotify ==
    \/ JobStart
    \/ JobNext
    \/ \E n \in NotifIds :
           \/ JobSendOk(n)
           \/ JobSendFails(n)
           \/ JobMark(n)
    \/ JobEnd
    \/ Tick

\* the runs of the periodic job on a store whose statements may fail
NextNotifyFault ==
    \/ NextNotify
    \/ \E n \in NotifIds : JobMarkFails(n)

SpecNotifyFault == InitNotify /\ [][NextNotifyFault]_vars

\* the interval trigger keeps starting runs and every run goes through its
\* loop; a delivery that is tried again and again succeeds at some time
FairNotify ==
    /\ WF_vars(JobStart)
    /\ WF_vars(JobNext)
    /\ WF_vars(JobEnd)
    /\ \A n \in NotifIds : SF_vars(JobSendOk(n)) /\ WF_vars(JobMark(n))

SpecNotifyLive == InitNotify /\ [][NextNotify]_vars /\ FairNotify

\* ---------------------------------------------------------------- claims
\* the positions of queue q are exactly 1..N, N the number of its entries
Dense(q) ==
    LET N == Cardinality(QueueEntries(q))
    IN  /\ Positions(q) = 1..N
        /\ \A e1, e2 \in QueueEntries(q) :
               e1.position = e2.position => e1 = e2

\* C1: when joins and leaves run to completion one after another, the
\* positions of every queue are exactly {1..N}, N being the number of its
\* entries: no gap and no duplicate.
C1_Density == \A q \in QueueIds : Dense(q)

\* the head of a queue of three has left and the two others moved up
C1_Witness ==
    \E p \in SeqProcs :
        /\ pc[p] = "done" /\ res[p] = "Left" /\ loc[p].position = 1
        /\ Cardinality(QueueEntries(tgt[p])) = 2

\* invocation p has answered a join of user usr[p] with position
\* loc[p].position and the row it inserted is in the table
JoinedRow(p) ==
    /\ pc[p] = "done" /\ res[p] = "Joined"
    /\ \E e \in entries :
        /\ e.queue_id = tgt[p] /\ e.user_id = usr[p]
        /\ e.position = loc[p].position

\* C2: two joins by different users on the same queue never end up with
\* the same position, however their steps interleave.
C2_DistinctPositions ==
    \A p1, p2 \in Procs :
        (/\ p1 # p2 /\ JoinedRow(p1) /\ JoinedRow(p2)
         /\ tgt[p1] = tgt[p2] /\ usr[p1] # usr[p2])
            => loc[p1].position # loc[p2].position

\* C3: a queue with max_participants = K never holds the entries of more
\* than K distinct users, however the capacity checks and the inserts of
\* their joins interleave.
C3_QueueCapacity ==
    \A q \in QueueIds :
        queues[q].max_participants # NULL =>
            Cardinality({e.user_id : e \in QueueEntries(q)})
                <= queues[q].max_participants

\* C6: of two joins by different users that both found the queue with
\* max_participants = 1 empty, only one succeeds and holds an entry (the
\* other is answered QueueFull).
C6_OneJoinWins ==
    \A p1, p2 \in Procs :
        (/\ p1 # p2 /\ tgt[p1] = tgt[p2] /\ usr[p1] # usr[p2]
         /\ JoinedRow(p1) /\ loc[p1].len_entries = 0
         /\ queues[tgt[p1]].max_participants = 1
         /\ pc[p2] = "done" /\ loc[p2].len_entries = 0)
            => ~JoinedRow(p2)

\* C7: a user holds at most one entry per queue.
C7_OneEntryPerUser ==
    \A q \in QueueIds, u \in Users : Cardinality(UserEntries(q, u)) <= 1

\* C8: when a leave overlaps a join or another leave on the same queue,
\* the positions are exactly {1..N} once all the invocations have answered.
C8_LeaveAtomic ==
    (\A r \in Procs : Quiet(r)) => \A q \in QueueIds : Dense(q)

\* invocation p has answered a select of user usr[p] with success and the
\* row it inserted is in the table
SelectedRow(p) ==
    /\ pc[p] = "done" /\ res[p] \in {"Selected", "Pending"}
    /\ UserSelections(tgt[p], usr[p]) # {}

\* C4: a topic with max_selections = K never has the selection rows,
\* pending and approved together, of more than K users.
C4_TopicCapacity ==
    \A t \in TopicIds :
        Cardinality(SelectedBy(t)) <= topics[t].max_selections

\* C5: two selects by different users that both counted exactly one free
\* slot of the topic never both succeed and over-subscribe the topic.
C5_LastSlot ==
    \A p1, p2 \in Procs :
        (/\ p1 # p2 /\ tgt[p1] = tgt[p2] /\ usr[p1] # usr[p2]
         /\ SelectedRow(p1)
         /\ loc[p1].current_selections + 1 = topics[tgt[p1]].max_selections
         /\ SelectedRow(p2)
         /\ loc[p2].current_selections + 1 = topics[tgt[p2]].max_selections)
            => CountSelections(tgt[p1]) <= topics[tgt[p1]].max_selections

\* the effect of the commit of p's leave: the entry of p's user at position
\* P is gone, every other entry of the queue behind P is one place lower,
\* every other entry is as it was, and the order of the others is kept
LeaveEffect(p) ==
    LET P == loc[p].position
        gone == {e \in entries : e.id = loc[p].entry}
        rest == entries \ gone
    IN  /\ Cardinality(gone) = 1
        /\ \A e \in gone :
               e.user_id = usr[p] /\ e.queue_id = tgt[p] /\ e.position = P
        /\ {e.id : e \in entries'} = {e.id : e \in rest}
        /\ Cardinality(entries') = Cardinality(rest)
        /\ \A e \in rest : \E f \in entries' :
               /\ f.id = e.id
               /\ f.user_id = e.user_id /\ f.queue_id = e.queue_id
               /\ f.position =
                      IF e.queue_id = tgt[p] /\ e.position > P
                      THEN e.position - 1 ELSE e.position
        /\ \A e1, e2 \in rest : \A f1, f2 \in entries' :
               (f1.id = e1.id /\ f2.id = e2.id /\ e1.position < e2.position)
                   => f1.position < f2.position

TopicFull(t) == CountSelections(t) >= topics[t].max_selections

\* invocation p takes a step
Steps(p) == pc'[p] # pc[p] \/ res'[p] # res[p] \/ tx'[p] # tx[p]

\* the select that starts with this step is on a topic of the user's group
\* whose deadline has not passed
Selectable(p) ==
    /\ tgt'[p] \in DOMAIN topics
    /\ topics[tgt'[p]].group_id = user_group(usr'[p])
    /\ ~DeadlinePassed(tgt'[p])

\* the commit of a reject of an existing selection of a full topic lowers
\* the count of the topic by one
RejectFrees(p) ==
    (/\ pc[p] = "reject_commit" /\ pc'[p] = "done"
     /\ UserSelections(tgt[p], usr[p]) # {}
     /\ CountSelections(tgt[p]) = topics[tgt[p]].max_selections)
        => (/\ res'[p] = "Rejected"
            /\ CountSelections(tgt[p])' = CountSelections(tgt[p]) - 1
            /\ ~TopicFull(tgt[p])')

\* the commit of an approve of an existing selection of a full topic sets
\* the flag and leaves the count, and so the topic full
ApproveKeeps(p) ==
    (/\ pc[p] = "approve_commit" /\ pc'[p] = "done"
     /\ UserSelections(tgt[p], usr[p]) # {}
     /\ CountSelections(tgt[p]) = topics[tgt[p]].max_selections)
        => (/\ res'[p] = "Approved"
            /\ \A s \in UserSelections(tgt[p], usr[p])' : s.approved
            /\ CountSelections(tgt[p])' = CountSelections(tgt[p])
            /\ TopicFull(tgt[p])')

\* a select on a full topic of the user's group before its deadline is
\* answered CapacityFull and inserts nothing
FullRefuses(p) ==
    (ChooseTopicHandler(p) /\ Selectable(p) /\ TopicFull(tgt'[p]))
        => (/\ pc'[p] = "done" /\ res'[p] = "CapacityFull"
            /\ selections' = selections)

\* a select on a topic with a free slot by a user without a selection goes
\* through every check and inserts the user's row
FreeAccepts(p) ==
    /\ (ChooseTopicHandler(p) /\ Selectable(p) /\ ~TopicFull(tgt'[p]))
           => pc'[p] = "select_user"
    /\ (pc[p] = "select_user" /\ Steps(p)
        /\ UserSelections(tgt[p], usr[p]) = {})
           => pc'[p] = "select_count"
    /\ (pc[p] = "select_count" /\ Steps(p)) => pc'[p] = "select_insert"
    /\ (pc[p] = "select_insert" /\ Steps(p))
           => (/\ res'[p] \in {"Selected", "Pending"}
               /\ UserSelections(tgt[p], usr[p])' # {}
               /\ CountSelections(tgt[p])' = CountSelections(tgt[p]) + 1)

\* C10: reject frees capacity and approve does not.  On a topic whose count
\* equals max_selections a reject of a selection lowers the count by one,
\* after which the select of a user without a selection succeeds; an approve
\* leaves the count, and the select of another user is answered CapacityFull.
C10_RejectFreesApproveKeeps ==
    [][\A p \in Procs :
           RejectFrees(p) /\ ApproveKeeps(p) /\ FullRefuses(p)
               /\ FreeAccepts(p)]_vars

\* the delete of a reject of an existing selection has run on a topic whose
\* count equals max_selections
C10_Witness ==
    \E p \in SeqProcs :
        /\ pc[p] = "reject_commit" /\ tx[p].rows # {}
        /\ CountSelections(tgt[p]) = topics[tgt[p]].max_selections

\* C11: in every reachable state there is at most one selection row per
\* (topic, user), also when the same user issues two selects on the same
\* topic concurrently.
C11_OneSelectionPerUser ==
    \A t \in TopicIds, u \in Users : Cardinality(UserSelections(t, u)) <= 1

\* the state of the selection of topic t by user u
SelectionState(t, u) ==
    IF UserSelections(t, u) = {} THEN "not-selected"
    ELSE IF \A s \in UserSelections(t, u) : s.approved THEN "approved"
    ELSE "pending"

\* the changes of state of a selection that the contract allows
SelectionChanges ==
    {<<"not-selected", "pending">>, <<"not-selected", "approved">>,
     <<"pending", "approved">>, <<"pending", "not-selected">>}

\* C12: the state of a (topic, user) selection changes only along
\* not-selected -> pending, not-selected -> approved, pending -> approved
\* and pending -> not-selected; no step takes an approved selection back to
\* not-selected or to pending.
C12_SelectionTransitions ==
    [][\A t \in TopicIds, u \in Users :
           \/ SelectionState(t, u)' = SelectionState(t, u)
           \/ <<SelectionState(t, u), SelectionState(t, u)'>>
                  \in SelectionChanges]_vars

\* the commit of an approve of an existing selection answers Approved,
\* leaves one row of the pair with the flag set and leaves the count of the
\* topic; on a selection that is approved already it changes no row
ApproveOnce(p) ==
    (/\ pc[p] = "approve_commit" /\ pc'[p] = "done"
     /\ UserSelections(tgt[p], usr[p]) # {})
        => (/\ res'[p] = "Approved"
            /\ Cardinality(UserSelections(tgt[p], usr[p])') = 1
            /\ \A s \in UserSelections(tgt[p], usr[p])' : s.approved
            /\ CountSelections(tgt[p])' = CountSelections(tgt[p])
            /\ (\A s \in UserSelections(tgt[p], usr[p]) : s.approved)
                   => selections' = selections)

\* C13: approve is idempotent.  Every approve of an existing selection
\* succeeds, the first and the second alike; afterwards there is exactly one
\* row of the (topic, user) pair, its flag is set, and the count of the
\* topic is what it was before the call; the second approve changes nothing.
C13_ApproveIdempotent == [][\A p \in Procs : ApproveOnce(p)]_vars

\* the update of a second approve has run: the topic asks for approval and
\* the row of the pair is approved already
C13_Witness ==
    \E p \in SeqProcs :
        /\ pc[p] = "approve_commit" /\ tx[p].rows # {}
        /\ topics[tgt[p]].requires_approval
        /\ \A s \in UserSelections(tgt[p], usr[p]) : s.approved

\* the deadline of topic t is set and lies in the past
PastDeadline(t) == topics[t].deadline # NULL /\ now > topics[t].deadline

\* invocation p starts a select on a topic that it finds, a topic of the
\* group of its user
FindsTopic(p) ==
    /\ ChooseTopicHandler(p)
    /\ tgt'[p] \in DOMAIN topics
    /\ topics[tgt'[p]].group_id = user_group(usr'[p])

\* C14: a select on a topic whose deadline is in the past always fails with
\* DeadlinePassed and inserts no row, whatever the remaining capacity of the
\* topic and whether or not the user holds a selection.  (The topic is one
\* the select finds; a topic of another group is answered as not found.)
C14_DeadlineEnforced ==
    [][\A p \in Procs :
           (FindsTopic(p) /\ PastDeadline(tgt'[p]))
               => (/\ pc'[p] = "done" /\ res'[p] = "DeadlinePassed"
                   /\ selections' = selections)]_vars

\* a select is answered DeadlinePassed on a topic that has no free slot
C14_Witness ==
    \E p \in SeqProcs :
        /\ pc[p] = "done" /\ res[p] = "DeadlinePassed"
        /\ PastDeadline(tgt[p]) /\ TopicFull(tgt[p])

\* C15: a join by a user who already holds an entry in the queue returns
\* AlreadyJoined and leaves the entries of the queue and their positions
\* unchanged.
C15_AlreadyJoined ==
    [][\A p \in Procs :
           (JoinHandler(p) /\ UserEntries(tgt'[p], usr'[p]) # {})
               => (/\ pc'[p] = "done" /\ res'[p] = "AlreadyJoined"
                   /\ entries' = entries)]_vars

\* a join of a user with an entry in a queue of two has been answered
\* AlreadyJoined
C15_Witness ==
    \E p \in SeqProcs :
        /\ pc[p] = "done" /\ res[p] = "AlreadyJoined"
        /\ UserEntries(tgt[p], usr[p]) # {}
        /\ Cardinality(QueueEntries(tgt[p])) = 2

\* the leave of a user without an entry in a queue that the handler finds:
\* the handler calls the CRUD leave, whose select finds no row, and the
\* answer is NotInQueue with no row deleted, no position changed and no
\* write left in the session
LeaveOfAbsent(p) ==
    /\ (/\ LeaveHandler(p)
        /\ tgt'[p] \in DOMAIN queues
        /\ queues[tgt'[p]].group_id = user_group(usr'[p])
        /\ UserEntries(tgt'[p], usr'[p]) = {})
           => (pc'[p] = "leave_select" /\ entries' = entries)
    /\ (/\ pc[p] = "leave_select" /\ Steps(p)
        /\ UserEntries(tgt[p], usr[p]) = {})
           => (/\ pc'[p] = "done" /\ res'[p] = "NotInQueue"
               /\ entries' = entries /\ tx'[p] = NoTx)

\* C16: a leave by a user who has no entry in the queue returns NotInQueue
\* and changes nothing: no entry is deleted and no position is shifted.
\* (The queue is one the leave finds; a queue of another group is answered
\* as not found.)
C16_NotInQueue == [][\A p \in Procs : LeaveOfAbsent(p)]_vars

\* a leave of a user without an entry has been answered NotInQueue on a
\* queue that holds the entries of two other users
C16_Witness ==
    \E p \in SeqProcs :
        /\ pc[p] = "done" /\ res[p] = "NotInQueue"
        /\ UserEntries(tgt[p], usr[p]) = {}
        /\ Positions(tgt[p]) = {1, 2}

\* the answers of a join other than QueueNotFound
JoinAnswers == {"Joined", "AlreadyJoined", "QueueFull", "JoinFailed"}

\* queue id q has no row or its row has the active flag false
MissingOrInactive(q) == q \notin DOMAIN queues \/ ~queues[q].is_active

\* C17: a join on a queue that does not exist or whose active flag is false
\* fails with QueueNotFound and creates no entry: such a queue never holds
\* an entry and no join on it is answered otherwise.
C17_QueueNotFound ==
    /\ \A q \in QueueRefs : MissingOrInactive(q) => QueueEntries(q) = {}
    /\ \A p \in Procs :
           (pc[p] = "done" /\ MissingOrInactive(tgt[p]))
               => res[p] \notin JoinAnswers

\* the answers of a select other than TopicNotFound and TopicInactive
SelectAnswers ==
    {"Selected", "Pending", "AlreadySelected", "CapacityFull",
     "DeadlinePassed", "SelectFailed"}

\* C18: a select on a topic whose active flag is false fails with
\* TopicInactive and inserts no selection row: an inactive topic never holds
\* a selection and no select on it is answered otherwise.
C18_TopicInactive ==
    /\ \A t \in TopicIds : ~topics[t].is_active => TopicSelections(t) = {}
    /\ \A p \in Procs :
           (pc[p] = "done" /\ tgt[p] \in DOMAIN topics
            /\ ~topics[tgt[p]].is_active
            /\ topics[tgt[p]].group_id = user_group(usr[p]))
               => res[p] \notin SelectAnswers

\* C19: an approve for a (topic, user) pair that has no selection row
\* reports failure (SelectionNotFound), creates no row and changes no state.
C19_ApproveNotFound ==
    [][\A p \in Procs :
           (/\ pc[p] = "approve_commit" /\ pc'[p] = "done"
            /\ UserSelections(tgt[p], usr[p]) = {})
               => (/\ res'[p] = "SelectionNotFound"
                   /\ selections' = selections)]_vars

\* C20: a reject for a (topic, user) pair that has no selection row reports
\* the failure that the row is not found and changes no state; it is not
\* reported as a successful rejection.
C20_RejectNotFound ==
    [][\A p \in Procs :
           (/\ pc[p] = "reject_commit" /\ pc'[p] = "done"
            /\ UserSelections(tgt[p], usr[p]) = {})
               => (/\ res'[p] = "SelectionNotFound"
                   /\ res'[p] # "Rejected"
                   /\ selections' = selections)]_vars

\* the answers that stand for a rule of the queue or of the topic
BusinessOutcomes ==
    {"Joined", "Left", "Selected", "Pending", "Approved", "Rejected",
     "AlreadyJoined", "QueueFull", "NotInQueue", "QueueNotFound",
     "AlreadySelected", "CapacityFull", "DeadlinePassed", "TopicNotFound"}

\* a statement of the CRUD call of p's join, leave, select or approve
\* fails; the leave has found the entry of the user before
StoreFails(p) ==
    \/ JoinFails(p)
    \/ LeaveFails(p) /\ pc[p] # "leave_select"
    \/ SelectFails(p)
    \/ ApproveFails(p)

\* C21: a store failure during join, leave, select or approve surfaces to
\* the caller as an error outcome that is distinct from every business
\* outcome (AlreadyJoined, QueueFull, NotInQueue, CapacityFull, not found);
\* it is never reported as one of those.
C21_StoreFailureDistinct ==
    [][\A p \in Procs :
           StoreFails(p) => res'[p] \notin BusinessOutcomes]_vars

\* the step of p is the insert of a select that is answered with success:
\* one row is added, the row of p's user and topic; its flag is the
\* negation of requires_approval, and the answer is Selected for an
\* approved row and Pending for a row that waits for approval
SelectStores(p) ==
    (/\ pc[p] = "select_insert" /\ pc'[p] = "done"
     /\ res'[p] \in {"Selected", "Pending"})
        => (/\ Cardinality(selections' \ selections) = 1
            /\ selections \subseteq selections'
            /\ \A r \in selections' \ selections :
                /\ r.user_id = usr[p] /\ r.topic_id = tgt[p]
                /\ r.approved = ~topics[tgt[p]].requires_approval
                /\ (res'[p] = "Selected") = r.approved
                /\ (res'[p] = "Pending") = ~r.approved)

\* C22: a successful select inserts a selection row whose approved flag is
\* the negation of the topic's requires_approval, and the outcome reported
\* to the caller (selected or pending approval) agrees with the stored flag.
C22_SelectFlag == [][\A p \in Procs : SelectStores(p)]_vars

\* a select on a topic that requires approval has been answered Pending
\* and the row of the user is stored unapproved
C22_Witness ==
    \E p \in SeqProcs :
        /\ pc[p] = "done" /\ res[p] = "Pending"
        /\ topics[tgt[p]].requires_approval
        /\ \E r \in UserSelections(tgt[p], usr[p]) : ~r.approved

\* the step of p is the insert of a join that is answered with success:
\* the position answered and stored is the maximum position of the queue
\* before the insert plus 1, or 1 in an empty queue, and the total answered
\* is the number of entries of the queue after the insert
JoinAssigns(p) ==
    (pc[p] = "join_commit" /\ pc'[p] = "done" /\ res'[p] = "Joined")
        => LET q == tgt[p]
               before == IF QueueEntries(q) = {} THEN 0
                         ELSE SetMax(Positions(q))
           IN  /\ loc'[p].position = before + 1
               /\ Cardinality(entries' \ entries) = 1
               /\ entries \subseteq entries'
               /\ \A e \in entries' \ entries :
                      /\ e.queue_id = q /\ e.user_id = usr[p]
                      /\ e.position = before + 1
               /\ TotalReported(p)' = Cardinality(QueueEntries(q))'

\* C23: a successful join assigns the position (maximum position in the
\* queue before the insert) + 1, or 1 when the queue is empty, and the
\* total count it reports to the caller equals the number of entries in
\* the queue after the join.
C23_JoinPosition == [][\A p \in Procs : JoinAssigns(p)]_vars

\* the entry with id i in the table rows
EntryOf(rows, i) == CHOOSE e \in rows : e.id = i

\* a step keeps the order of joining: an entry that the step adds stands
\* behind every entry that is in its queue already, and two entries of one
\* queue that the step keeps stay in the order they had
KeepsJoinOrder ==
    LET kept == {e.id : e \in entries} \cap {e.id : e \in entries'}
    IN  /\ \A n \in entries' : \A e \in entries :
               (n.id \notin {x.id : x \in entries} /\ e.queue_id = n.queue_id)
                   => e.position < n.position
        /\ \A i, j \in kept :
               (/\ EntryOf(entries, i).queue_id = EntryOf(entries, j).queue_id
                /\ EntryOf(entries, i).position < EntryOf(entries, j).position)
                   => EntryOf(entries', i).position
                          < EntryOf(entries', j).position

\* C24: in every reachable state, of two entries of the same queue the one
\* whose join completed earlier has the smaller position; leaves never
\* reorder the remaining entries relative to each other.  The queue starts
\* empty, so the order holds in every state when every step keeps it.
C24_JoinOrder == [][KeepsJoinOrder]_vars

\* the step commits the leave of an entry of queue q that stands in front
\* of position pos: the entry is in the table before the step and gone
\* after it
LeaveInFront(q, pos) ==
    \E p \in Procs :
        /\ pc[p] = "leave_commit" /\ pc'[p] = "done" /\ res'[p] = "Left"
        /\ tgt[p] = q
        /\ \E g \in entries :
            /\ g.id = loc[p].entry /\ g.queue_id = q /\ g.position < pos
            /\ g.id \notin {e.id : e \in entries'}

\* an entry that a step keeps is the entry of the same user in the same
\* queue, and its position is the same or, in the commit of a leave of an
\* entry in front of it, lower by exactly 1
PositionsOnlyFall ==
    \A e \in entries : \A f \in entries' :
        f.id = e.id =>
            /\ f.user_id = e.user_id /\ f.queue_id = e.queue_id
            /\ f.position <= e.position
            /\ f.position # e.position =>
                   /\ f.position = e.position - 1
                   /\ LeaveInFront(e.queue_id, e.position)

OthersUntouched(p) ==
    /\ \A q \in DOMAIN queues \ {tgt[p]} :
           {e \in entries' : e.queue_id = q} = QueueEntries(q)
    /\ \A t \in DOMAIN topics \ {tgt[p]} :
           {s \in selections' : s.topic_id = t} = TopicSelections(t)
    /\ \A i \in tx'[p].del \cup tx'[p].shift \cup tx'[p].rows : i[1] = tgt'[p]
    /\ queues' = queues /\ topics' = topics

\* C26: an operation on one queue or topic leaves every other queue and
\* topic as it was: no step of a join, leave, select, approve or reject
\* changes, or marks for change, an entry of another queue or a selection of
\* another topic, and none changes a queue's or a topic's own row, however
\* the steps of two operations on different queues or topics interleave.
C26_OtherUntouched ==
    [][\A p \in Procs : Steps(p) => OthersUntouched(p)]_vars

\* a leave has moved the entries of its queue up while a leave on the other
\* queue, which holds entries behind the position that left, is under way
C26_Witness ==
    \E p \in FrameProcs : \E r \in FrameProcs \ {p} :
        /\ pc[p] = "done" /\ res[p] = "Left" /\ loc[p].position = 1
        /\ Positions(tgt[p]) = {1}
        /\ pc[r] = "leave_update" /\ tgt[r] # tgt[p]
        /\ Positions(tgt[r]) = {1, 2}

\* the step in which invocation p sends its notification
Notifies(p) == pc[p] = "done" /\ pc'[p] = "notified"

\* C27: a notification that cannot be delivered is not propagated: the step
\* that sends the notice to the leader after a pending selection, or to the
\* user after an approve or a reject, leaves the committed selections and
\* the outcome already answered as they are, whether or not the delivery
\* works.
C27_NotifyNotPropagated ==
    [][\A p \in Procs :
           Notifies(p) => /\ selections' = selections
                          /\ res'[p] = res[p]
                          /\ tx'[p] = NoTx]_vars

\* the notice of an approval was sent; the approved row and the answer stand
C27_Witness ==
    \E p \in SeqProcs :
        /\ pc[p] = "notified" /\ res[p] = "Approved"
        /\ \E s \in selections : s.approved

\* the queue has a capacity and holds at least that many entries
AtCapacity(q) ==
    /\ q \in DOMAIN queues
    /\ queues[q].max_participants # NULL
    /\ Cardinality(QueueEntries(q)) >= queues[q].max_participants

\* C28: the join handler checks that the queue exists, then that the user
\* has not joined, then the capacity: a join by a user who already holds an
\* entry in a full queue is answered AlreadyJoined, not QueueFull.
C28_AlreadyJoinedBeforeFull ==
    [][\A p \in Procs :
           (/\ JoinHandler(p)
            /\ AtCapacity(tgt'[p])
            /\ UserEntries(tgt'[p], usr'[p]) # {})
               => (pc'[p] = "done" /\ res'[p] = "AlreadyJoined")]_vars

\* a join of a user with an entry in a full queue has been answered
\* AlreadyJoined
C28_Witness ==
    \E p \in SeqProcs :
        /\ pc[p] = "done" /\ res[p] = "AlreadyJoined"
        /\ AtCapacity(tgt[p])
        /\ UserEntries(tgt[p], usr[p]) # {}

\* the queue has no limit on its participants
Unlimited(q) == q \in DOMAIN queues /\ queues[q].max_participants = NULL

\* C29: a join on a queue whose max_participants is null is never answered
\* QueueFull, however many entries the queue holds.
C29_NullNeverFull ==
    [][\A p \in Procs :
           (JoinHandler(p) /\ Unlimited(tgt'[p]))
               => res'[p] # "QueueFull"]_vars

\* a join on a queue without a limit has taken the last position the model
\* holds
C29_Witness ==
    \E p \in SeqProcs :
        /\ pc[p] = "done" /\ res[p] = "Joined"
        /\ Unlimited(tgt[p])
        /\ loc[p].position = MaxPos
        /\ Cardinality(QueueEntries(tgt[p])) = MaxPos

\* the step in which a leave that has executed its delete ends without the
\* answer that the user left
LeaveAborts(p) ==
    /\ pc[p] \in {"leave_update", "leave_commit"}
    /\ pc'[p] = "done"
    /\ res'[p] # "Left"

\* C30: a leave is all or nothing when the store fails: if a statement
\* fails after the delete and before the reorder is committed, the
\* transaction is rolled back, the entry of the user is still in the queue,
\* no position has changed, nothing stays pending, and the leave reports
\* failure.
C30_LeaveAllOrNothing ==
    [][\A p \in Procs :
           LeaveAborts(p) =>
               /\ entries' = entries
               /\ \E e \in entries' :
                      /\ e.id = loc[p].entry
                      /\ e.user_id = usr[p] /\ e.queue_id = tgt[p]
                      /\ e.position = loc[p].position
               /\ tx'[p] = NoTx
               /\ res'[p] = "NotInQueue"]_vars

\* a leave from the head of a queue of two or more has failed: the answer is
\* that of a failed leave and the user still holds position 1
C30_Witness ==
    \E p \in SeqProcs :
        /\ pc[p] = "done" /\ res[p] = "NotInQueue"
        /\ \E e \in UserEntries(tgt[p], usr[p]) : e.position = 1
        /\ Cardinality(QueueEntries(tgt[p])) >= 2
        /\ Dense(tgt[p])

\* the entries other than those of user u in queue q
WithoutUser(rows, q, u) == {e \in rows : ~(e.queue_id = q /\ e.user_id = u)}

\* the two halves of a join followed at once by the leave of the same user:
\* the join adds the entry of the user and nothing else, and the leave gives
\* back the entries without it, which are the entries the join started from
RoundTrip(p) ==
    /\ (pc[p] = "join_commit" /\ pc'[p] = "done" /\ res'[p] = "Joined")
           => /\ UserEntries(tgt[p], usr[p]) = {}
              /\ WithoutUser(entries', tgt[p], usr[p]) = entries
              /\ Cardinality(entries') = Cardinality(entries) + 1
    /\ (pc[p] = "leave_commit" /\ pc'[p] = "done" /\ res'[p] = "Left")
           => /\ entries' = WithoutUser(entries, tgt[p], usr[p])
              /\ Cardinality(entries') = Cardinality(entries) - 1

\* C31: a successful join of a user on a queue followed at once by the leave
\* of the same user on the same queue, with no other operation on the queue
\* in between, gives back exactly the entries and the positions that the
\* queue had before the join.
C31_JoinLeaveRoundTrip == [][\A p \in Procs : RoundTrip(p)]_vars

\* the user who joined third has left again and the two entries in front
\* stand where they stood
C31_Witness ==
    \E p \in SeqProcs :
        /\ pc[p] = "done" /\ res[p] = "Left"
        /\ loc[p].position = MaxPos
        /\ UserEntries(tgt[p], usr[p]) = {}
        /\ Positions(tgt[p]) = 1..(MaxPos - 1)
        /\ Cardinality(QueueEntries(tgt[p])) = MaxPos - 1

\* the queue (the topic) has a row and belongs to a group other than the
\* user's
ForeignQueue(q, u) == q \in DOMAIN queues /\ queues[q].group_id # user_group(u)

ForeignTopic(t, u) == t \in DOMAIN topics /\ topics[t].group_id # user_group(u)

\* the answer and the effect of a member operation on a queue or a topic of
\* another group
Isolated(p) ==
    /\ ((JoinHandler(p) \/ LeaveHandler(p)) /\ ForeignQueue(tgt'[p], usr'[p]))
           => /\ pc'[p] = "done" /\ res'[p] = "QueueNotFound"
              /\ entries' = entries /\ tx'[p] = NoTx
    /\ (ChooseTopicHandler(p) /\ ForeignTopic(tgt'[p], usr'[p]))
           => /\ pc'[p] = "done" /\ res'[p] = "TopicNotFound"
              /\ selections' = selections /\ tx'[p] = NoTx
    /\ \A e \in entries' : ~ForeignQueue(e.queue_id, e.user_id)
    /\ \A s \in selections' : ~ForeignTopic(s.topic_id, s.user_id)

\* C32: a join or a leave on a queue, or a select on a topic, of a group
\* other than the acting user's group is answered as not found and creates
\* or deletes no row; no user ever holds an entry or a selection in a queue
\* or a topic of another group.
C32_MemberIsolation == [][\A p \in Procs : Isolated(p)]_vars

\* an operation on the queue of another group has been answered not found
\* and the queue holds no entry
C32_Witness ==
    \E p \in SeqProcs :
        /\ pc[p] = "done" /\ res[p] = "QueueNotFound"
        /\ ForeignQueue(tgt[p], usr[p])
        /\ QueueEntries(tgt[p]) = {}

\* the commit of an approve or a reject that changes the selections
StaffChanges(p) ==
    /\ pc[p] \in {"approve_commit", "reject_commit"}
    /\ pc'[p] = "done"
    /\ selections' # selections

\* C33: an approve or a reject changes a selection only when the topic
\* belongs to the group of the leader or assistant who performs it.
C33_StaffIsolation ==
    [][\A p \in Procs :
           StaffChanges(p) =>
               topics[tgt[p]].group_id = loc[p].staff_group]_vars

\* C34: for an invite token with max_uses = K, the number of users
\* registered into the group through the token never exceeds K, also when
\* several users complete the invite registration at the same time.
C34_InviteLimit ==
    \A k \in DOMAIN invite_tokens :
        invite_tokens[k].max_uses # NULL
            => Cardinality(RegisteredWith(k)) <= invite_tokens[k].max_uses

\* C35: each stored notification is delivered to its user at most once
\* across all runs of send_pending_notifications.
C35_DeliveredAtMostOnce ==
    \A n \in DOMAIN delivered : delivered[n] <= 1

\* the notification may be sent: it is not sent yet and its time is unset
\* or has come
Due(n) ==
    /\ ~notifications[n].is_sent
    /\ \/ notifications[n].scheduled_for = NULL
       \/ notifications[n].scheduled_for <= now

\* a failed delivery leaves the notification pending, and only a delivery
\* or a user with notifications disabled lets it be marked
MarkedWhenDone(n) ==
    /\ (job.pc = "send" /\ job.cur = n /\ delivered'[n] = delivered[n])
           => notifications'[n] = notifications[n]
    /\ (~notifications[n].is_sent /\ notifications'[n].is_sent)
           => /\ Due(n)
              /\ delivered[n] = IF notifications[n].enabled THEN 1 ELSE 0

\* C36: a due notification (is_sent false, scheduled_for unset or not in
\* the future) is eventually marked is_sent, provided the periodic job keeps
\* running and the delivery eventually succeeds; a failed delivery leaves it
\* pending for the next run, and for a user with notifications disabled it
\* is marked without being delivered.
C36_DueEventuallySent ==
    /\ [][\A n \in DOMAIN notifications : MarkedWhenDone(n)]_vars
    /\ \A n \in NotifIds : Due(n) ~> notifications[n].is_sent

\* one notification was delivered and marked, the other was marked for a
\* user with notifications disabled and never delivered
C36_Witness ==
    \E n \in DOMAIN notifications : \E m \in DOMAIN notifications :
        /\ notifications[n].is_sent /\ notifications[n].enabled
        /\ delivered[n] = 1
        /\ notifications[m].is_sent /\ ~notifications[m].enabled
        /\ delivered[m] = 0

====
